---- MODULE Spec2Model ----
(***************************************************************************)
(* CPU scheduling simulator: the six solvers of scheduler.py (FCFS, Round  *)
(* Robin, SJF, SRTF, Priority, Priority-Preemptive), in both copies of the *)
(* file kept in the repository, with the adapter around them: the parsing *)
(* of a request row into a Process, the synthesized timeline,              *)
(* calculate_metrics and the to_dict views.                                *)
(*                                                                         *)
(* One behaviour is one solver call on one batch of Process records.  A    *)
(* step is one iteration of the solver's main loop.  Process k of the      *)
(* input list carries pid "P<k>" and is named by its position k.           *)
(***************************************************************************)
EXTENDS Integers, Sequences, FiniteSets, TLC

\* ---- bounds of the explored inputs
MaxProcs == 2
MaxArrival == 3
MaxBurst == 3
\* the burst times tried with the two priority solvers, whose inputs also
\* range over the priorities
MaxPriorityBurst == 2
MaxPriority == 2
MaxQuantum == 2
\* the processes of a solve_priority_preemptive run followed for its
\* preemptions: the running job, the next arrival and one more
MaxPreemptProcs == 3
\* a run with a quantum <= 0 may never end: it is followed for this many passes
\* of the loop
MaxRunaway == 3

\* ---- program constants
\* the timeline's pid of an idle interval ('Idle')
Idle == 0
\* last_pid = None
NoPid == -1
\* the adapter's default quantum, data.get('quantum', 2)
DefaultQuantum == 2

\* priority = None, and a set priority
None == <<>>
Some(v) == <<v>>

\* the two copies of scheduler.py
Variants == {"root", "nested"}
Algorithms == {"fcfs", "sjf", "priority", "rr", "srtf", "priority_preemptive"}
PriorityAlgorithms == {"priority", "priority_preemptive"}
TimelineAlgorithms == {"rr", "srtf", "priority_preemptive"}
\* the solvers whose code differs between the two copies
VariantAlgorithms == {"srtf", "priority_preemptive"}

VARIABLES
    variant,            \* which copy of scheduler.py runs
    algorithm,          \* the solver the adapter dispatches to
    quantum,            \* the time quantum handed to solve_round_robin
    processes,          \* the input list of Process records (at, bt, pr)
    pc,                 \* "request", "built", "rejected", "start",
                        \* "run", "done", "responded", "error"
    temp_processes,     \* the input positions sorted by arrival time
    process_index,      \* next position of temp_processes to admit (1-based)
    ready_queue,        \* positions of the ready jobs
    rem_bt,             \* remaining burst time per process
    current_time,       \* the simulated clock
    finished_processes, \* positions of the completed processes, in order
    gantt_timeline,     \* the timeline: records [pid, start, end]
    last_pid,           \* pid of the last timeline block (srtf, priority_preemptive)
    ct, tat, wt,        \* the derived fields of each Process
    result,             \* the list the solver returns
    raised,             \* the exception that ended the run, "" when none
    iterations,         \* passes of the solver's main loop made so far
    p_data,             \* a request row [pid, at, bt, pr] still to be parsed
    final_metrics,      \* what calculate_metrics returned, <<>> before the call
    results             \* the to_dict view of each returned process

vars == <<variant, algorithm, quantum, processes, pc, temp_processes,
          process_index, ready_queue, rem_bt, current_time,
          finished_processes, gantt_timeline, last_pid, ct, tat, wt,
          result, raised, iterations, p_data, final_metrics, results>>

\* what the adapter holds besides the solver's state
adapter == <<p_data, final_metrics, results>>

N == Len(processes)
Pids == 1..N
AT(p) == processes[p].at
BT(p) == processes[p].bt
PR(p) == processes[p].pr

\* ---- Process.__init__ : the record a constructor call leaves behind
Process(arrival_time, burst_time, priority) ==
    [at |-> arrival_time, bt |-> burst_time, pr |-> priority]

\* ---- list.sort / sorted : stable, by a key <<k1, k2>> compared as a tuple
KeyLess(a, b) == a[1] < b[1] \/ (a[1] = b[1] /\ a[2] < b[2])

\* x goes after every element that does not compare greater than it
RECURSIVE InsertByKey(_, _, _)
InsertByKey(s, x, key) ==
    IF s = <<>> THEN <<x>>
    ELSE IF KeyLess(key[x], key[Head(s)]) THEN <<x>> \o s
    ELSE <<Head(s)>> \o InsertByKey(Tail(s), x, key)

RECURSIVE SortedByKey(_, _)
SortedByKey(s, key) ==
    IF s = <<>> THEN <<>>
    ELSE InsertByKey(SortedByKey(SubSeq(s, 1, Len(s) - 1), key), s[Len(s)], key)

\* the list is left in its input order
ArrivalKeyUnsorted == [p \in Pids |-> <<0, 0>>]
\* key=lambda x: x.at
ArrivalKey == [p \in Pids |-> <<AT(p), 0>>]
\* the longest burst sorts first
BurstKeyLongestFirst == [p \in Pids |-> <<0 - BT(p), AT(p)>>]
\* key=lambda x: (x.bt, x.at)
BurstKey == [p \in Pids |-> <<BT(p), AT(p)>>]
\* the longest remaining time sorts first
RemainingKeyLongestFirst == [p \in Pids |-> <<0 - rem_bt[p], AT(p)>>]
\* key=lambda x: (x['rem_bt'], x['p'].at)
RemainingKey == [p \in Pids |-> <<rem_bt[p], AT(p)>>]
\* the largest priority value sorts first
PriorityKeyLargestFirst ==
    [p \in Pids |-> <<IF PR(p) = None THEN 0 ELSE 0 - PR(p)[1], AT(p)>>]
\* key=lambda x: (x.pr, x.at); equal None priorities compare equal
PriorityKey == [p \in Pids |-> <<IF PR(p) = None THEN 0 ELSE PR(p)[1], AT(p)>>]

\* sorting by (pr, at) compares a None with an int: TypeError
PrioritySortRaises(q) ==
    /\ Len(q) >= 2
    /\ \E i, j \in 1..Len(q) : PR(q[i]) = None /\ PR(q[j]) # None

\* next_pr < current_pr with a None on either side: TypeError
PriorityCompareRaises(a, b) == PR(a) = None \/ PR(b) = None

\* ---- the admission loop:
\*   while process_index < len(temp_processes) and temp[process_index].at <= t
AdmitUpTo(t) ==
    CHOOSE k \in process_index..(N + 1) :
        /\ \A j \in process_index..(k - 1) : AT(temp_processes[j]) <= t
        /\ (k = N + 1 \/ AT(temp_processes[k]) > t)

\* the arrivals are taken off temp_processes and never queued
AdmittedLost(t) == <<>>

\* the arrivals are admitted newest first
AdmittedNewestFirst(t) ==
    LET a == SubSeq(temp_processes, process_index, AdmitUpTo(t) - 1)
    IN  [i \in 1..Len(a) |-> a[Len(a) + 1 - i]]

Admitted(t) == SubSeq(temp_processes, process_index, AdmitUpTo(t) - 1)

Min(a, b) == IF a < b THEN a ELSE b

\* ---- the timeline
Block(p, s, e) == [pid |-> p, start |-> s, end |-> e]
ExtendLast(g, e) == [g EXCEPT ![Len(g)].end = e]

\* the adapter's dummy timeline of a non-preemptive run
SynthesizedTimeline(done) ==
    [i \in 1..Len(done) |->
        Block(done[i], ct[done[i]] - BT(done[i]) - wt[done[i]], ct[done[i]])]

\* ---- the derived fields, written when a process completes
Turnaround(p, c) == c - AT(p)
\* the arrival time is subtracted in place of the burst time
WaitingLessArrival(p, ta) == ta - AT(p)
Waiting(p, ta) == ta - BT(p)

\* the fields of every process are written when one completes
CompleteWritesAll(p, c) ==
    /\ ct' = [q \in Pids |-> c]
    /\ tat' = [q \in Pids |-> Turnaround(q, c)]
    /\ wt' = [q \in Pids |-> Waiting(q, Turnaround(q, c))]

Complete(p, c) ==
    /\ ct' = [ct EXCEPT ![p] = c]
    /\ tat' = [tat EXCEPT ![p] = Turnaround(p, c)]
    /\ wt' = [wt EXCEPT ![p] = Waiting(p, Turnaround(p, c))]

\* an exception leaves the solver: the adapter answers 500 and returns no data
Raise(e) ==
    /\ pc' = "error"
    /\ raised' = e
    /\ UNCHANGED <<temp_processes, process_index, ready_queue, rem_bt,
                   current_time, finished_processes, gantt_timeline, last_pid,
                   ct, tat, wt, result>>

\* the solver returns; for fcfs, sjf and priority the adapter then builds the
\* dummy timeline from the returned list
Return(done) ==
    /\ pc' = "done"
    /\ result' = done
    /\ gantt_timeline' = IF algorithm \in TimelineAlgorithms
                         THEN gantt_timeline
                         ELSE SynthesizedTimeline(done)
    /\ UNCHANGED <<temp_processes, process_index, ready_queue, rem_bt,
                   current_time, finished_processes, last_pid, ct, tat, wt,
                   raised>>

\* ---- the inputs
ProcessLists(S) == UNION {[1..n -> S] : n \in 0..MaxProcs}

ValidProcesses(alg) ==
    {Process(a, b, p) :
        a \in 0..MaxArrival,
        b \in 1..(IF alg \in PriorityAlgorithms THEN MaxPriorityBurst ELSE MaxBurst),
        p \in IF alg \in PriorityAlgorithms
              THEN {Some(v) : v \in 1..MaxPriority} ELSE {None}}

RawProcesses(alg) ==
    {Process(a, b, p) :
        a \in (0 - 1)..MaxArrival,
        b \in 0..(IF alg \in PriorityAlgorithms THEN MaxPriorityBurst ELSE MaxBurst),
        p \in IF alg \in PriorityAlgorithms
              THEN {None} \cup {Some(v) : v \in 1..MaxPriority} ELSE {None}}

\* the state in which the adapter calls the solver
Called ==
    /\ pc = "start"
    /\ temp_processes = <<>>
    /\ process_index = 1
    /\ ready_queue = <<>>
    /\ rem_bt = <<>>
    /\ current_time = 0
    /\ finished_processes = <<>>
    /\ gantt_timeline = <<>>
    /\ last_pid = NoPid
    /\ ct = [p \in Pids |-> 0]
    /\ tat = [p \in Pids |-> 0]
    /\ wt = [p \in Pids |-> 0]
    /\ result = <<>>
    /\ raised = ""
    /\ iterations = 0
    /\ p_data = <<>>
    /\ final_metrics = <<>>
    /\ results = <<>>

Init ==
    /\ algorithm \in Algorithms
    /\ variant \in IF algorithm \in VariantAlgorithms THEN Variants ELSE {"root"}
    /\ quantum \in IF algorithm = "rr" THEN 1..MaxQuantum ELSE {DefaultQuantum}
    /\ processes \in ProcessLists(ValidProcesses(algorithm))
    /\ Called

\* the adapter checks neither the sign of the quantum nor the range of the
\* arrival and burst times nor the presence of a priority
RawInit ==
    /\ algorithm \in Algorithms
    /\ variant \in IF algorithm \in VariantAlgorithms THEN Variants ELSE {"root"}
    /\ quantum \in IF algorithm = "rr" THEN (0 - 1)..MaxQuantum ELSE {DefaultQuantum}
    /\ processes \in ProcessLists(RawProcesses(algorithm))
    /\ Called

\* ---- solver entry: the locals before the main loop
Start ==
    /\ pc = "start"
    /\ UNCHANGED adapter
    /\ pc' = "run"
    /\ temp_processes' = SortedByKey([i \in 1..N |-> i], ArrivalKey)
    /\ rem_bt' = [p \in Pids |-> BT(p)]
    /\ UNCHANGED <<variant, algorithm, quantum, processes, process_index,
                   ready_queue, current_time, finished_processes,
                   gantt_timeline, last_pid, ct, tat, wt, result, raised,
                   iterations>>

\* the process starts at the clock even when it has not arrived yet
BeginAtClock(p, t) == t

\* if current_time < p.at: current_time = p.at
Begin(p, t) == IF t < AT(p) THEN AT(p) ELSE t

\* ---- solve_fcfs: one pass of  for p in processes
SolveFcfsStep ==
    /\ pc = "run" /\ algorithm = "fcfs"
    /\ UNCHANGED adapter
    /\ process_index <= N
    /\ LET p == temp_processes[process_index]
           begin == Begin(p, current_time)
       IN /\ Complete(p, begin + BT(p))
          /\ current_time' = begin + BT(p)
    /\ process_index' = process_index + 1
    /\ iterations' = iterations + 1
    /\ UNCHANGED <<variant, algorithm, quantum, processes, pc, temp_processes,
                   ready_queue, rem_bt, finished_processes, gantt_timeline,
                   last_pid, result, raised>>

\* ---- solve_sjf and solve_priority: one pass of the while loop
NonPreemptiveStep(key, sortRaises) ==
    LET ni == AdmitUpTo(current_time)
        rq == ready_queue \o Admitted(current_time)
        sorted == SortedByKey(rq, key)
        job == Head(sorted)
    IN  /\ UNCHANGED <<variant, algorithm, quantum, processes>>
        /\ IF rq = <<>>
           THEN IF ni <= N
                THEN /\ current_time' = AT(temp_processes[ni])
                     /\ process_index' = ni
                     /\ UNCHANGED <<pc, temp_processes, ready_queue, rem_bt,
                                    finished_processes, gantt_timeline,
                                    last_pid, ct, tat, wt, result, raised>>
                ELSE Return(finished_processes)
           ELSE IF sortRaises /\ PrioritySortRaises(rq)
                THEN Raise("TypeError")
                ELSE /\ Complete(job, current_time + BT(job))
                     /\ current_time' = current_time + BT(job)
                     /\ finished_processes' = Append(finished_processes, job)
                     /\ ready_queue' = Tail(sorted)
                     /\ process_index' = ni
                     /\ UNCHANGED <<pc, temp_processes, rem_bt, gantt_timeline,
                                    last_pid, result, raised>>

SolveSjfStep ==
    /\ pc = "run" /\ algorithm = "sjf"
    /\ UNCHANGED adapter
    /\ Len(finished_processes) < N
    /\ NonPreemptiveStep(BurstKey, FALSE)
    /\ iterations' = iterations + 1

SolvePriorityStep ==
    /\ pc = "run" /\ algorithm = "priority"
    /\ UNCHANGED adapter
    /\ Len(finished_processes) < N
    /\ NonPreemptiveStep(PriorityKey, TRUE)
    /\ iterations' = iterations + 1

\* ---- solve_srtf and solve_priority_preemptive: the parts of one pass

\* C. the idle block, root copy: always a new block
IdleBlockRoot(next) == Append(gantt_timeline, Block(Idle, current_time, next))

\* C. the idle block, nested copy: merged into a preceding Idle block
IdleBlockNested(next) ==
    IF gantt_timeline # <<>> /\ gantt_timeline[Len(gantt_timeline)].pid = Idle
    THEN ExtendLast(gantt_timeline, next)
    ELSE Append(gantt_timeline, Block(Idle, current_time, next))

\* C. the idle branch
IdleUntil(next) ==
    /\ gantt_timeline' = IF variant = "root" THEN IdleBlockRoot(next)
                                             ELSE IdleBlockNested(next)
    /\ current_time' = next
    /\ last_pid' = Idle

\* D. solve_srtf's execution duration, root copy; ni is the next position
\* of temp_processes to arrive
SrtfDurationRoot(job, ni) ==
    LET time_until_arrival == AT(temp_processes[ni]) - current_time
    IN  IF ni > N THEN rem_bt[job]
        ELSE IF time_until_arrival > 0 /\ time_until_arrival < rem_bt[job]
        THEN time_until_arrival
        ELSE rem_bt[job]

\* D. solve_srtf's execution duration, nested copy
SrtfDurationNested(job, ni) ==
    LET time_until_arrival == AT(temp_processes[ni]) - current_time
    IN  IF ni > N THEN rem_bt[job]
        ELSE IF 0 < time_until_arrival
                /\ rem_bt[temp_processes[ni]] < rem_bt[job]
        THEN time_until_arrival
        ELSE IF 0 < time_until_arrival /\ time_until_arrival < rem_bt[job]
        THEN time_until_arrival
        ELSE rem_bt[job]

SrtfDuration(job, ni) ==
    IF variant = "root" THEN SrtfDurationRoot(job, ni)
                        ELSE SrtfDurationNested(job, ni)

\* D. solve_priority_preemptive's execution duration, root copy (the elif
\* branch is a pass)
PriorityDurationRoot(job, ni) ==
    LET time_until_arrival == AT(temp_processes[ni]) - current_time
        next_pr == PR(temp_processes[ni])[1]
        current_pr == PR(job)[1]
    IN  IF ni > N THEN rem_bt[job]
        ELSE IF time_until_arrival > 0 /\ next_pr < current_pr
        THEN time_until_arrival
        ELSE rem_bt[job]

\* D. solve_priority_preemptive's execution duration, nested copy
PriorityDurationNested(job, ni) ==
    LET time_until_arrival == AT(temp_processes[ni]) - current_time
        next_pr == PR(temp_processes[ni])[1]
        current_pr == PR(job)[1]
    IN  IF ni > N THEN rem_bt[job]
        ELSE IF 0 < time_until_arrival /\ next_pr < current_pr
        THEN time_until_arrival
        ELSE IF 0 < time_until_arrival /\ time_until_arrival < rem_bt[job]
        THEN time_until_arrival
        ELSE rem_bt[job]

PriorityDuration(job, ni) ==
    IF variant = "root" THEN PriorityDurationRoot(job, ni)
                        ELSE PriorityDurationNested(job, ni)

\* the comparison next_pr < current_pr is reached and one side is None
PriorityDurationRaises(job, ni) ==
    /\ ni <= N
    /\ AT(temp_processes[ni]) - current_time > 0
    /\ PriorityCompareRaises(temp_processes[ni], job)

\* E. the timeline after job ran from current_time to t
Recorded(job, t) ==
    IF gantt_timeline # <<>> /\ last_pid = job
    THEN ExtendLast(gantt_timeline, t)
    ELSE Append(gantt_timeline, Block(job, current_time, t))

\* the preempted job is dropped instead of being put back
PutBackDropped(rest, job) == rest

\* F. a preempted job goes back to the ready queue
PutBack(rest, job) == Append(rest, job)

\* E and F. run job for d, record it, complete it or put it back
Execute(job, rest, d) ==
    /\ current_time' = current_time + d
    /\ rem_bt' = [rem_bt EXCEPT ![job] = rem_bt[job] - d]
    /\ gantt_timeline' = Recorded(job, current_time + d)
    /\ last_pid' = job
    /\ IF rem_bt[job] - d = 0
       THEN /\ Complete(job, current_time + d)
            /\ finished_processes' = Append(finished_processes, job)
            /\ ready_queue' = rest
       ELSE /\ ready_queue' = PutBack(rest, job)
            /\ UNCHANGED <<ct, tat, wt, finished_processes>>

PreemptiveStep(key, byPriority) ==
    LET ni == AdmitUpTo(current_time)
        rq == ready_queue \o Admitted(current_time)
        sorted == SortedByKey(rq, key)
        job == Head(sorted)
    IN  /\ UNCHANGED <<variant, algorithm, quantum, processes>>
        /\ IF byPriority /\ PrioritySortRaises(rq)
           THEN Raise("TypeError")
           ELSE IF rq = <<>>
           THEN IF ni <= N
                THEN IF current_time < AT(temp_processes[ni])
                     THEN /\ IdleUntil(AT(temp_processes[ni]))
                          /\ process_index' = ni
                          /\ UNCHANGED <<pc, temp_processes, ready_queue, rem_bt,
                                         finished_processes, ct, tat, wt, result,
                                         raised>>
                     ELSE Raise("TypeError")
                ELSE Return(finished_processes)
           ELSE IF byPriority /\ PriorityDurationRaises(job, ni)
           THEN Raise("TypeError")
           ELSE /\ Execute(job, Tail(sorted),
                           IF byPriority THEN PriorityDuration(job, ni)
                                         ELSE SrtfDuration(job, ni))
                /\ process_index' = ni
                /\ UNCHANGED <<pc, temp_processes, result, raised>>

SolveSrtfStep ==
    /\ pc = "run" /\ algorithm = "srtf"
    /\ UNCHANGED adapter
    /\ Len(finished_processes) < N
    /\ PreemptiveStep(RemainingKey, FALSE)
    /\ iterations' = iterations + 1

SolvePriorityPreemptiveStep ==
    /\ pc = "run" /\ algorithm = "priority_preemptive"
    /\ UNCHANGED adapter
    /\ Len(finished_processes) < N
    /\ PreemptiveStep(PriorityKey, TRUE)
    /\ iterations' = iterations + 1

\* ---- solve_round_robin: one pass of the while loop
\* the slice is what is left of the quantum after the remaining burst
RoundRobinSliceLeftOver(q, rem) == q - Min(q, rem)

RoundRobinSlice(q, rem) == Min(q, rem)

\* every slice gets a block of its own: the merge is left out
RoundRobinRecordedUnmerged(job, t) ==
    Append(gantt_timeline, Block(job, current_time, t))

\* the timeline after job ran from current_time to t
RoundRobinRecorded(job, t) ==
    IF gantt_timeline # <<>> /\ gantt_timeline[Len(gantt_timeline)].pid = job
    THEN ExtendLast(gantt_timeline, t)
    ELSE Append(gantt_timeline, Block(job, current_time, t))

\* the preempted job goes back to the front of the queue
RequeueAtFront(rest, newly_arrived, job) ==
    <<job>> \o rest \o newly_arrived

\* the preempted job goes back ahead of the new arrivals
RequeueAheadOfArrivals(rest, newly_arrived, job) ==
    Append(rest, job) \o newly_arrived

\* D. the preempted job goes to the end of the queue, after the new arrivals
Requeue(rest, newly_arrived, job) == Append(rest \o newly_arrived, job)

SolveRoundRobinStep ==
    /\ pc = "run" /\ algorithm = "rr"
    /\ UNCHANGED adapter
    /\ ~(Len(finished_processes) >= N /\ ready_queue = <<>>)
    /\ IF quantum >= 1 THEN TRUE ELSE iterations < MaxRunaway
    /\ UNCHANGED <<variant, algorithm, quantum, processes>>
    /\ iterations' = iterations + 1
    /\ LET ni == AdmitUpTo(current_time)
           rq == ready_queue \o Admitted(current_time)
           job == Head(rq)
           d == RoundRobinSlice(quantum, rem_bt[job])
           t == current_time + d
           \* the admission loop run again from ni at the end of the slice
           nj == CHOOSE k \in ni..(N + 1) :
                    /\ \A j \in ni..(k - 1) : AT(temp_processes[j]) <= t
                    /\ (k = N + 1 \/ AT(temp_processes[k]) > t)
           newly_arrived == SubSeq(temp_processes, ni, nj - 1)
       IN IF rq = <<>>
          THEN IF ni <= N
               THEN IF current_time < AT(temp_processes[ni])
                    THEN /\ gantt_timeline' =
                               Append(gantt_timeline,
                                      Block(Idle, current_time, AT(temp_processes[ni])))
                         /\ current_time' = AT(temp_processes[ni])
                         /\ process_index' = ni
                         /\ UNCHANGED <<pc, temp_processes, ready_queue, rem_bt,
                                        finished_processes, last_pid, ct, tat, wt,
                                        result, raised>>
                    ELSE Raise("IndexError")
               ELSE Return(finished_processes)
          ELSE /\ current_time' = t
               /\ rem_bt' = [rem_bt EXCEPT ![job] = rem_bt[job] - d]
               /\ gantt_timeline' = RoundRobinRecorded(job, t)
               /\ process_index' = nj
               /\ IF rem_bt[job] - d = 0
                  THEN /\ Complete(job, t)
                       /\ finished_processes' = Append(finished_processes, job)
                       /\ ready_queue' = Tail(rq) \o newly_arrived
                  ELSE /\ ready_queue' = Requeue(Tail(rq), newly_arrived, job)
                       /\ UNCHANGED <<ct, tat, wt, finished_processes>>
               /\ UNCHANGED <<pc, temp_processes, last_pid, result, raised>>

\* ---- the loop condition fails: the solver returns
LoopCondition ==
    CASE algorithm = "fcfs" -> process_index <= N
      [] algorithm = "rr" -> ~(Len(finished_processes) >= N /\ ready_queue = <<>>)
      [] OTHER -> Len(finished_processes) < N

SolverReturn ==
    /\ pc = "run"
    /\ UNCHANGED adapter
    /\ ~LoopCondition
    /\ Return(IF algorithm = "fcfs" THEN temp_processes ELSE finished_processes)
    /\ UNCHANGED <<variant, algorithm, quantum, processes, iterations>>

\* ======================================================================
\* calculate_metrics and Process.to_dict
\* ======================================================================

\* the power of the busy and of the idle CPU, and the normalisation constant
ActivePower == 5
IdlePower == 1
MAX_TIME == 10
\* utilization is a percentage
Percent == 100
\* the decimals the root copy rounds to
UtilizationPlaces == 2
ThroughputPlaces == 4
EnergyPlaces == 2
TeiPlaces == 4

\* ---- a Python float, taken as the exact quotient n / d (d > 0)
Rat(n, d) == <<n, d>>
Whole(n) == Rat(n, 1)
RatEq(a, b) == a[1] * b[2] = b[1] * a[2]
RatAdd(a, b) == Rat(a[1] * b[2] + b[1] * a[2], a[2] * b[2])
\* a / b for b > 0
RatDiv(a, b) == Rat(a[1] * b[2], a[2] * b[1])

\* the quotient n / d is cut off, not rounded
RoundDown(n, d) == n \div d

\* n / d rounded to the nearest integer, a tie to the even one
RoundHalfEven(n, d) ==
    LET q == n \div d
        r == n % d
    IN  IF 2 * r < d THEN q
        ELSE IF 2 * r > d THEN q + 1
        ELSE IF q % 2 = 0 THEN q ELSE q + 1

\* round(x, places)
Round(x, places) == Rat(RoundHalfEven(x[1] * 10^places, x[2]), 10^places)

\* sum(f(p) for p in procs)
RECURSIVE Sum(_, _)
Sum(procs, f) == IF procs = <<>> THEN 0 ELSE f[Head(procs)] + Sum(Tail(procs), f)

\* max(p.ct for p in procs)
MaxCt(procs) ==
    CHOOSE c \in {ct[procs[i]] : i \in 1..Len(procs)} :
        \A i \in 1..Len(procs) : ct[procs[i]] <= c

\* one pass of  for block in gantt_timeline
ScanBlock(acc, block) ==
    LET duration == block.end - block.start
        idle == acc.current_idle_time + duration
        run == acc.current_run_time + duration
    IN  IF block.pid = Idle
        THEN [acc EXCEPT !.current_idle_time = idle,
                         !.current_run_time = 0,
                         !.max_idle_time = IF idle > @ THEN idle ELSE @]
        ELSE [acc EXCEPT !.current_run_time = run,
                         !.current_idle_time = 0,
                         !.max_run_time = IF run > @ THEN run ELSE @]

RECURSIVE ScanTimeline(_, _)
ScanTimeline(timeline, acc) ==
    IF timeline = <<>> THEN acc
    ELSE ScanTimeline(Tail(timeline), ScanBlock(acc, Head(timeline)))

ScanStart == [max_run_time |-> 0, max_idle_time |-> 0,
              current_run_time |-> 0, current_idle_time |-> 0]

\* the bundle of an empty list, root copy: three keys
EmptyMetricsRoot ==
    [utilization |-> Whole(0), throughput |-> Whole(0), energy |-> Whole(0)]

\* the bundle of an empty list, nested copy: six keys
EmptyMetricsNested ==
    [avg_tat |-> Whole(0), avg_wt |-> Whole(0), utilization |-> Whole(0),
     throughput |-> Whole(0), energy |-> Whole(0), tei |-> Whole(0)]

\* calculate_metrics(processes, gantt_timeline) of the given copy; procs is
\* the returned list
calculate_metrics(copy, procs, timeline) ==
    LET last_event_time ==
            IF timeline # <<>> THEN timeline[Len(timeline)].end
            ELSE MaxCt(procs)
        total_cpu_time == Sum(procs, [p \in Pids |-> BT(p)])
        utilization == IF last_event_time > 0
                       THEN Rat(total_cpu_time * Percent, last_event_time)
                       ELSE Whole(0)
        throughput == IF last_event_time > 0
                      THEN Rat(Len(procs), last_event_time)
                      ELSE Whole(0)
        cpu_active_time == total_cpu_time
        cpu_idle_time == last_event_time - cpu_active_time
        energy_consumed ==
            Whole(cpu_active_time * ActivePower + cpu_idle_time * IdlePower)
        scan == ScanTimeline(timeline, ScanStart)
        normalized_cf == Rat(scan.max_run_time, MAX_TIME)
        normalized_ip == Rat(scan.max_idle_time, MAX_TIME)
        avg_tat == Rat(Sum(procs, tat), Len(procs))
        avg_wt == Rat(Sum(procs, wt), Len(procs))
        tei == IF avg_tat[1] > 0
               THEN RatAdd(RatAdd(RatDiv(avg_wt, avg_tat), normalized_cf),
                           normalized_ip)
               ELSE RatAdd(normalized_cf, normalized_ip)
    IN  IF procs = <<>>
        THEN IF copy = "root" THEN EmptyMetricsRoot ELSE EmptyMetricsNested
        ELSE IF copy = "root"
        THEN [utilization |-> Round(utilization, UtilizationPlaces),
              throughput |-> Round(throughput, ThroughputPlaces),
              energy |-> Round(energy_consumed, EnergyPlaces),
              tei |-> Round(tei, TeiPlaces)]
        ELSE [avg_tat |-> avg_tat, avg_wt |-> avg_wt,
              utilization |-> utilization, throughput |-> throughput,
              energy |-> energy_consumed, tei |-> tei]

\* the view always carries the key pr
to_dict_always_pr(p) ==
    [pid |-> p, at |-> AT(p), bt |-> BT(p), ct |-> ct[p], tat |-> tat[p],
     wt |-> wt[p], pr |-> PR(p)]

\* Process.to_dict
to_dict(p) ==
    IF PR(p) # None
    THEN [pid |-> p, at |-> AT(p), bt |-> BT(p), ct |-> ct[p],
          tat |-> tat[p], wt |-> wt[p], pr |-> PR(p)[1]]
    ELSE [pid |-> p, at |-> AT(p), bt |-> BT(p), ct |-> ct[p],
          tat |-> tat[p], wt |-> wt[p]]

\* ---- the adapter after the solver returned: the metrics and the views.
\* fcfs, sjf, priority and rr are the same code in both copies of
\* scheduler.py, so for them the copy shows only here, in calculate_metrics
Respond ==
    /\ pc = "done"
    /\ pc' = "responded"
    /\ \E copy \in IF algorithm \in VariantAlgorithms THEN {variant} ELSE Variants :
          /\ variant' = copy
          /\ final_metrics' = calculate_metrics(copy, result, gantt_timeline)
    /\ results' = [i \in 1..Len(result) |-> to_dict(result[i])]
    /\ UNCHANGED <<algorithm, quantum, processes, temp_processes, process_index,
                   ready_queue, rem_bt, current_time, finished_processes,
                   gantt_timeline, last_pid, ct, tat, wt, result, raised,
                   iterations, p_data>>

Next ==
    \/ Start
    \/ SolveFcfsStep
    \/ SolveSjfStep
    \/ SolvePriorityStep
    \/ SolveRoundRobinStep
    \/ SolveSrtfStep
    \/ SolvePriorityPreemptiveStep
    \/ SolverReturn
    \/ Respond

\* valid inputs
Spec == Init /\ [][Next]_vars

\* every input the adapter lets through
RawSpec == RawInit /\ [][Next]_vars

\* ---- solve_priority_preemptive alone, on lists of MaxPreemptProcs processes
PreemptInit ==
    /\ algorithm = "priority_preemptive"
    /\ variant \in Variants
    /\ quantum = DefaultQuantum
    /\ processes \in [1..MaxPreemptProcs -> ValidProcesses(algorithm)]
    /\ Called

PreemptNext ==
    \/ Start
    \/ SolvePriorityPreemptiveStep
    \/ SolverReturn
    \/ Respond

PreemptSpec == PreemptInit /\ [][PreemptNext]_vars

\* ---- the calls of solve_fcfs, solve_sjf and solve_round_robin on lists of
\* up to MaxScenarioProcs processes whose arrival and burst times are those
\* of the processes ("P1",0,5), ("P2",1,3), ("P3",2,8), and the burst 1,
\* short enough for the CPU to idle between two arrivals
MaxScenarioProcs == 3
ScenarioArrivals == {0, 1, 2}
ScenarioBursts == {1, 3, 5, 8}
ScenarioAlgorithms == {"fcfs", "sjf", "rr"}

ScenarioProcesses ==
    {Process(a, b, None) : a \in ScenarioArrivals, b \in ScenarioBursts}

ScenarioInit ==
    /\ algorithm \in ScenarioAlgorithms
    /\ variant = "root"
    /\ quantum \in IF algorithm = "rr" THEN 1..MaxQuantum ELSE {DefaultQuantum}
    /\ processes \in UNION {[1..n -> ScenarioProcesses] : n \in 0..MaxScenarioProcs}
    /\ Called

ScenarioNext ==
    \/ Start
    \/ SolveFcfsStep
    \/ SolveSjfStep
    \/ SolveRoundRobinStep
    \/ SolverReturn

ScenarioSpec == ScenarioInit /\ [][ScenarioNext]_vars

\* ======================================================================
\* Process.__init__ and the adapter's parsing of one request row
\* ======================================================================

\* ---- the values a priority can be handed over as: nothing (the row has
\* three fields, the constructor's default), null, an integer v, the decimal
\* text of an integer v, the empty text, a text that is no number
NoPriorityValue == [kind |-> "absent", v |-> 0]
PriorityValues ==
    {[kind |-> k, v |-> 0] : k \in {"absent", "null", "empty", "word"}}
        \cup {[kind |-> k, v |-> i] :
                 k \in {"int", "digits"}, i \in (0 - 1)..MaxPriority}

\* bool(x)
Truthy(x) ==
    CASE x.kind = "int" -> x.v # 0
      [] x.kind \in {"digits", "word"} -> TRUE
      [] OTHER -> FALSE

\* int(x) raises ValueError
IntRaises(x) == x.kind \in {"empty", "word"}

\* str(x).isdigit()
IsDigit(x) == x.kind \in {"int", "digits"} /\ x.v >= 0

\* what a parse or a constructor call leaves: a priority, or an exception
Parsed(priority) == [raised |-> "", pr |-> priority]
Failed(e) == [raised |-> e, pr |-> None]

\* app.py: pr = int(p_data[3]) if len(p_data) > 3 and p_data[3] else None
RowPriority(x) ==
    IF x.kind # "absent" /\ Truthy(x)
    THEN IF IntRaises(x) THEN Failed("ValueError")
         ELSE Parsed([kind |-> "int", v |-> x.v])
    ELSE Parsed(NoPriorityValue)

\* root copy: self.pr = int(priority) if priority is not None else None
ProcessPriorityRoot(x) ==
    IF x.kind \notin {"absent", "null"}
    THEN IF IntRaises(x) THEN Failed("ValueError") ELSE Parsed(Some(x.v))
    ELSE Parsed(None)

\* nested copy: self.pr = int(priority)
\*     if priority is not None and str(priority).isdigit() else None
ProcessPriorityNested(x) ==
    IF x.kind \notin {"absent", "null"} /\ IsDigit(x)
    THEN Parsed(Some(x.v))
    ELSE Parsed(None)

ProcessPriority(x) ==
    IF variant = "root" THEN ProcessPriorityRoot(x) ELSE ProcessPriorityNested(x)

\* a request row [pid, at, bt, pr] is waiting to be made a Process
RowReceived ==
    /\ pc = "request"
    /\ p_data \in [at : 0..MaxArrival, bt : 1..MaxBurst, pr : PriorityValues]
    /\ variant \in Variants
    /\ algorithm = "priority"
    /\ quantum = DefaultQuantum
    /\ processes = <<>>
    /\ temp_processes = <<>>
    /\ process_index = 1
    /\ ready_queue = <<>>
    /\ rem_bt = <<>>
    /\ current_time = 0
    /\ finished_processes = <<>>
    /\ gantt_timeline = <<>>
    /\ last_pid = NoPid
    /\ ct = <<>> /\ tat = <<>> /\ wt = <<>>
    /\ result = <<>>
    /\ raised = ""
    /\ iterations = 0
    /\ final_metrics = <<>>
    /\ results = <<>>

\* the Process object is appended to the list, or the exception leaves
Built(outcome) ==
    /\ IF outcome.raised = ""
       THEN /\ pc' = "built"
            /\ processes' = <<Process(p_data.at, p_data.bt, outcome.pr)>>
            /\ ct' = <<0>> /\ tat' = <<0>> /\ wt' = <<0>>
            /\ UNCHANGED raised
       ELSE /\ pc' = "rejected"
            /\ raised' = outcome.raised
            /\ UNCHANGED <<processes, ct, tat, wt>>
    /\ UNCHANGED <<variant, algorithm, quantum, temp_processes, process_index,
                   ready_queue, rem_bt, current_time, finished_processes,
                   gantt_timeline, last_pid, result, iterations, p_data,
                   final_metrics, results>>

\* the adapter parses the row and constructs the Process
ParseRow ==
    /\ pc = "request"
    /\ LET pr == RowPriority(p_data.pr)
       IN  Built(IF pr.raised # "" THEN pr ELSE ProcessPriority(pr.pr))

\* the constructor is called with the row's values as they are
Construct ==
    /\ pc = "request"
    /\ Built(ProcessPriority(p_data.pr))

BuildNext == ParseRow \/ Construct

\* one request row made a Process record
BuildSpec == RowReceived /\ [][BuildNext]_vars

\* ======================================================================
\* solve_fcfs and solve_sjf as functions of their input list
\* ======================================================================

\* nothing completed yet
NoneCompleted == [order |-> <<>>, ct |-> [p \in Pids |-> 0]]

\* the list of Process objects in the order the adapter builds it
InputOrder == [i \in 1..N |-> i]

\* for p in processes, from clock t: the completion times written
RECURSIVE FcfsLoop(_, _, _)
FcfsLoop(sorted, t, out) ==
    IF sorted = <<>> THEN out
    ELSE LET p == Head(sorted)
             begin == IF t < AT(p) THEN AT(p) ELSE t
         IN  FcfsLoop(Tail(sorted), begin + BT(p),
                      [order |-> Append(out.order, p),
                       ct |-> [out.ct EXCEPT ![p] = begin + BT(p)]])

\* solve_fcfs(input): the returned list and the completion time of each pid
solve_fcfs(input) == FcfsLoop(SortedByKey(input, ArrivalKey), 0, NoneCompleted)

\* the admission loop of solve_sjf over temp from position idx at clock t
NextIndex(temp, idx, t) ==
    CHOOSE k \in idx..(Len(temp) + 1) :
        /\ \A j \in idx..(k - 1) : AT(temp[j]) <= t
        /\ (k = Len(temp) + 1 \/ AT(temp[k]) > t)

\* the while loop of solve_sjf
RECURSIVE SjfLoop(_, _, _, _, _)
SjfLoop(temp, idx, ready, t, out) ==
    IF Len(out.order) >= Len(temp) THEN out
    ELSE LET ni == NextIndex(temp, idx, t)
             rq == ready \o SubSeq(temp, idx, ni - 1)
             sorted == SortedByKey(rq, BurstKey)
             job == Head(sorted)
         IN  IF rq = <<>>
             THEN IF ni <= Len(temp)
                  THEN SjfLoop(temp, ni, rq, AT(temp[ni]), out)
                  ELSE out
             ELSE SjfLoop(temp, ni, Tail(sorted), t + BT(job),
                          [order |-> Append(out.order, job),
                           ct |-> [out.ct EXCEPT ![job] = t + BT(job)]])

\* solve_sjf(input): the returned list and the completion time of each pid
solve_sjf(input) ==
    SjfLoop(SortedByKey(input, ArrivalKey), 1, <<>>, 0, NoneCompleted)


\* ======================================================================
\* Properties
\* ======================================================================

Returned == pc = "done"

RECURSIVE TimelineDuration(_)
TimelineDuration(g) ==
    IF g = <<>> THEN 0
    ELSE (Head(g).end - Head(g).start) + TimelineDuration(Tail(g))

MaxCompletion == CHOOSE c \in {ct[p] : p \in Pids} : \A p \in Pids : ct[p] <= c

\* a job was taken off the CPU unfinished and resumed later: one process
\* has two blocks in the timeline
Preempted ==
    \E i, j \in 1..Len(gantt_timeline) :
        /\ i < j
        /\ gantt_timeline[i].pid # Idle
        /\ gantt_timeline[i].pid = gantt_timeline[j].pid

MissingPriority ==
    /\ algorithm \in PriorityAlgorithms
    /\ \E p \in Pids : PR(p) = None

ValidTimes == \A p \in Pids : AT(p) >= 0 /\ BT(p) >= 1

RECURSIVE TotalBurst(_)
TotalBurst(n) == IF n = 0 THEN 0 ELSE BT(n) + TotalBurst(n - 1)

NoFieldWritten == \A p \in Pids : ct[p] = 0 /\ tat[p] = 0 /\ wt[p] = 0

\* C1: on valid input every solver returns each input process exactly once
\* and nothing else.
C1_EveryProcessOnce ==
    Returned =>
        /\ Len(result) = N
        /\ \A p \in Pids : Cardinality({i \in 1..Len(result) : result[i] = p}) = 1
        /\ \A i \in 1..Len(result) : result[i] \in Pids

\* a run of solve_srtf over two processes in which one was preempted
C1_Witness ==
    /\ Returned /\ algorithm = "srtf" /\ N >= 2
    /\ Preempted
    /\ Len(result) = N

\* C2: on valid input every returned process has waiting_time >= 0, that
\* is completion_time >= arrival_time + burst_time.
C2_WaitingNonNegative ==
    Returned => \A p \in Pids : wt[p] >= 0 /\ ct[p] >= AT(p) + BT(p)

\* C3: in the timeline of rr, srtf and priority_preemptive every entry has
\* end > start and starts no earlier than the previous entry ends.
C3_TimelineOrdered ==
    (Returned /\ algorithm \in TimelineAlgorithms) =>
        /\ \A i \in 1..Len(gantt_timeline) :
              gantt_timeline[i].end > gantt_timeline[i].start
        /\ \A i \in 1..(Len(gantt_timeline) - 1) :
              gantt_timeline[i + 1].start >= gantt_timeline[i].end

\* C4: for every solver the durations of the timeline entries (the solver's
\* own timeline, or the adapter's synthesized one) add up to the completion
\* time of the last process to complete.
C4_TimelineCoversMakespan ==
    (Returned /\ N > 0) => TimelineDuration(gantt_timeline) = MaxCompletion

\* C5: the returned list is in completion order: completion_time does not
\* decrease along it.
C5_CompletionOrder ==
    Returned =>
        \A i \in 1..(Len(result) - 1) : ct[result[i]] <= ct[result[i + 1]]

\* C6: in the timeline built by rr, srtf and priority_preemptive no two
\* adjacent entries carry the same pid, Idle included.
C6_NoAdjacentSamePid ==
    algorithm \in TimelineAlgorithms =>
        \A i \in 1..(Len(gantt_timeline) - 1) :
            gantt_timeline[i].pid # gantt_timeline[i + 1].pid

\* two consecutive slices of one process were merged into one entry
C6_Witness ==
    /\ Returned /\ algorithm = "rr"
    /\ \E i \in 1..Len(gantt_timeline) :
          /\ gantt_timeline[i].pid # Idle
          /\ gantt_timeline[i].end - gantt_timeline[i].start > quantum

\* C7: with a priority missing, solve_priority and solve_priority_preemptive
\* fail with a SolverError before any process is scheduled or any derived
\* field is written.
C7_MissingPriorityRejected ==
    (MissingPriority /\ ValidTimes) =>
        /\ ~Returned
        /\ finished_processes = <<>>
        /\ NoFieldWritten
        /\ (pc = "error" => raised = "SolverError")

\* C8: no solver ever runs on a Process with a negative arrival_time or a
\* non-positive burst_time.
C8_InvalidProcessRejected ==
    pc \in {"run", "done"} => ValidTimes

\* C9: solve_round_robin never dispatches a job with a quantum <= 0: such a
\* run is rejected before any scheduling step.
C9_NonPositiveQuantumRejected ==
    (algorithm = "rr" /\ quantum <= 0 /\ ValidTimes) =>
        /\ \A i \in 1..Len(gantt_timeline) : gantt_timeline[i].pid = Idle
        /\ finished_processes = <<>>
        /\ \A p \in DOMAIN rem_bt : rem_bt[p] = BT(p)

\* one pass of the main loop of rr, srtf or priority_preemptive advances
\* the clock or completes a process
IterationProgress ==
    (pc = "run" /\ algorithm \in TimelineAlgorithms /\ LoopCondition) =>
        \/ current_time' > current_time
        \/ Len(finished_processes') = Len(finished_processes) + 1

\* the solver has raised nothing and has made no more passes of its loop
\* than the total burst time plus the number of processes
RunsToReturn ==
    /\ pc # "error"
    /\ iterations <= TotalBurst(N) + N

\* C10: on valid input every solver terminates (it raises nothing and
\* leaves its loop within a number of passes bounded by the total burst time
\* and the process count), and every iteration of the main loop of rr, srtf
\* and priority_preemptive strictly advances the clock or moves one process
\* into the finished list.
C10_TerminatesWithProgress ==
    /\ [][IterationProgress]_vars
    /\ []RunsToReturn

\* a priority_preemptive run with a preemption has returned
C10_Witness ==
    /\ Returned /\ algorithm = "priority_preemptive" /\ N >= 2
    /\ Preempted

\* the largest burst time of the input
AllBurstsWithin(q) == \A p \in Pids : BT(p) <= q

\* C11: with a quantum >= every burst time solve_round_robin returns the
\* processes in the same order and with the same completion times as
\* solve_fcfs on the same input: both return what solve_fcfs, taken as a
\* function of the input list, gives.
C11_RoundRobinDegeneratesToFcfs ==
    (/\ Returned
     /\ algorithm \in {"fcfs", "rr"}
     /\ (algorithm = "rr" => AllBurstsWithin(quantum))) =>
        /\ result = solve_fcfs(InputOrder).order
        /\ ct = solve_fcfs(InputOrder).ct

\* solve_round_robin has run two processes, one of which had to wait, each
\* in a single slice
C11_Witness ==
    /\ Returned /\ algorithm = "rr" /\ N >= 2
    /\ AllBurstsWithin(quantum)
    /\ \E p \in Pids : wt[p] > 0
    /\ \E p \in Pids : BT(p) >= 2

AllArriveAtZero == \A p \in Pids : AT(p) = 0

\* C12: when every process arrives at time 0, solve_srtf (both copies) and
\* solve_sjf return the processes in the same order with the same completion
\* times: both return what solve_sjf, taken as a function of the input list,
\* gives.
C12_SrtfAgreesWithSjf ==
    (Returned /\ algorithm \in {"sjf", "srtf"} /\ AllArriveAtZero) =>
        /\ result = solve_sjf(InputOrder).order
        /\ ct = solve_sjf(InputOrder).ct

\* solve_srtf has run two processes that arrived at 0, the second of the
\* input first
C12_Witness ==
    /\ Returned /\ algorithm = "srtf" /\ N >= 2
    /\ AllArriveAtZero
    /\ result[1] = 2

\* the orders in which the input list can be handed to the solver
InputOrders == {s \in [1..N -> Pids] : \A p \in Pids : \E i \in 1..N : s[i] = p}

\* processes with the same arrival time keep their relative order
KeepsTieOrder(s) ==
    \A i, j \in 1..N :
        (i < j /\ AT(s[i]) = AT(s[j])) => s[i] < s[j]

\* C13 as stated: solve_fcfs gives every pid the same completion time for
\* every order of the same input records.
C13_FcfsPermutationInvariant ==
    (Returned /\ algorithm = "fcfs") =>
        \A s \in InputOrders : solve_fcfs(s).ct = ct

\* C13 amended: solve_fcfs gives every pid the same completion time for
\* every order of the same input records in which the processes of equal
\* arrival time keep their relative order.
C13_FcfsTieOrderInvariant ==
    (Returned /\ algorithm = "fcfs") =>
        \A s \in InputOrders : KeepsTieOrder(s) => solve_fcfs(s).ct = ct

\* solve_fcfs has run two processes handed over latest arrival first
C13_Witness ==
    /\ Returned /\ algorithm = "fcfs" /\ N >= 2
    /\ AT(1) > AT(2)
    /\ \E s \in InputOrders : s # InputOrder /\ KeepsTieOrder(s)

\* C14: every process a solver returns has turnaround_time =
\* completion_time - arrival_time and waiting_time = turnaround_time -
\* burst_time.
C14_DerivedFields ==
    Returned =>
        \A i \in 1..Len(result) :
            /\ tat[result[i]] = ct[result[i]] - AT(result[i])
            /\ wt[result[i]] = tat[result[i]] - BT(result[i])

\* a returned process arrived after time 0, waited, and had burst time and
\* arrival time differ
C14_Witness ==
    /\ Returned
    /\ \E i \in 1..Len(result) :
          /\ AT(result[i]) > 0
          /\ wt[result[i]] > 0
          /\ AT(result[i]) # BT(result[i])

Responded == pc = "responded"

\* the six metrics of the bundle
MetricKeys == {"avg_tat", "avg_wt", "utilization", "throughput", "energy", "tei"}

\* C15: for an empty process list every solver returns an empty list and an
\* empty timeline without raising, and calculate_metrics returns all six
\* metrics, each 0.
C15_EmptyInputAllZero ==
    N = 0 =>
        /\ pc # "error"
        /\ (pc \in {"done", "responded"} =>
               result = <<>> /\ gantt_timeline = <<>>)
        /\ (Responded =>
               /\ DOMAIN final_metrics = MetricKeys
               /\ \A k \in DOMAIN final_metrics : RatEq(final_metrics[k], Whole(0)))

\* the end of the timeline's last entry, or the largest completion time
\* when the timeline is empty
Makespan ==
    IF gantt_timeline # <<>> THEN gantt_timeline[Len(gantt_timeline)].end
    ELSE MaxCompletion

\* the values C16 names
UtilizationOfClaim ==
    IF Makespan = 0 THEN Whole(0) ELSE Rat(100 * TotalBurst(N), Makespan)
ThroughputOfClaim ==
    IF Makespan = 0 THEN Whole(0) ELSE Rat(N, Makespan)
EnergyOfClaim == Whole(5 * TotalBurst(N) + 1 * (Makespan - TotalBurst(N)))

\* C16 as stated: for a non-empty completed list calculate_metrics returns
\* utilization = 100 * sum(burst_time) / makespan, throughput =
\* process_count / makespan (both 0 when makespan is 0) and energy =
\* 5 * sum(burst_time) + (makespan - sum(burst_time)), makespan being the end
\* of the timeline's last entry.
C16_MetricFormulas ==
    (Responded /\ N > 0) =>
        /\ RatEq(final_metrics.utilization, UtilizationOfClaim)
        /\ RatEq(final_metrics.throughput, ThroughputOfClaim)
        /\ RatEq(final_metrics.energy, EnergyOfClaim)

\* v is a decimal of the given number of places, and no such decimal is
\* nearer to x
IsRoundedTo(v, x, places) ==
    LET diff == v[1] * x[2] - x[1] * v[2]
    IN  /\ v[2] = 10^places
        /\ 2 * (IF diff < 0 THEN 0 - diff ELSE diff) <= x[2]

\* C16 amended: the nested copy returns these values; the root copy returns
\* this energy, this utilization rounded to 2 decimals and this throughput
\* rounded to 4 decimals.
C16_MetricFormulasRounded ==
    (Responded /\ N > 0) =>
        IF variant = "root"
        THEN /\ IsRoundedTo(final_metrics.utilization, UtilizationOfClaim, 2)
             /\ IsRoundedTo(final_metrics.throughput, ThroughputOfClaim, 4)
             /\ RatEq(final_metrics.energy, EnergyOfClaim)
        ELSE /\ RatEq(final_metrics.utilization, UtilizationOfClaim)
             /\ RatEq(final_metrics.throughput, ThroughputOfClaim)
             /\ RatEq(final_metrics.energy, EnergyOfClaim)

\* the root copy has returned a utilization and a throughput that rounding
\* changed, for a run with idle time
C16_Witness ==
    /\ Responded /\ N > 0 /\ variant = "root"
    /\ Makespan > TotalBurst(N)
    /\ ~RatEq(final_metrics.utilization, UtilizationOfClaim)
    /\ ~RatEq(final_metrics.throughput, ThroughputOfClaim)

\* ---- the maximal blocks of consecutive timeline entries of one class
IsIdle(i) == gantt_timeline[i].pid = Idle

RECURSIVE SpanDuration(_, _)
SpanDuration(i, j) ==
    IF i > j THEN 0
    ELSE (gantt_timeline[i].end - gantt_timeline[i].start) + SpanDuration(i + 1, j)

MaximalBlocks(idle) ==
    {b \in (1..Len(gantt_timeline)) \X (1..Len(gantt_timeline)) :
        /\ b[1] <= b[2]
        /\ \A k \in b[1]..b[2] : IsIdle(k) = idle
        /\ (b[1] = 1 \/ IsIdle(b[1] - 1) # idle)
        /\ (b[2] = Len(gantt_timeline) \/ IsIdle(b[2] + 1) # idle)}

\* the largest total duration of such a block, 0 when there is none
LargestBlock(idle) ==
    LET totals == {SpanDuration(b[1], b[2]) : b \in MaximalBlocks(idle)} \cup {0}
    IN  CHOOSE m \in totals : \A t \in totals : t <= m

TeiOfClaim ==
    LET spans == Rat(LargestBlock(FALSE) + LargestBlock(TRUE), 10)
        total_tat == Sum(result, tat)
    IN  IF total_tat > 0
        THEN RatAdd(Rat(Sum(result, wt), total_tat), spans)
        ELSE spans

\* C17: calculate_metrics returns tei = avg_waiting / avg_turnaround +
\* max_run / 10 + max_idle / 10 (without the first term when avg_turnaround
\* is not > 0), max_run and max_idle being the largest total duration of a
\* maximal block of consecutive non-Idle, resp. Idle, timeline entries; for a
\* single process arriving at 0 the turnaround is the burst time, the waiting
\* time is 0 and tei = burst_time / 10.
C17_TeiFormula ==
    (Responded /\ N > 0) =>
        /\ RatEq(final_metrics.tei, TeiOfClaim)
        /\ (N = 1 /\ AT(1) = 0) =>
              /\ tat[1] = BT(1)
              /\ wt[1] = 0
              /\ RatEq(final_metrics.tei, Rat(BT(1), 10))

\* C19: the to_dict view of a process has exactly the keys pid, at, bt, ct,
\* tat, wt, plus pr if and only if the process's priority is set.
C19_ViewKeys ==
    Responded =>
        \A i \in 1..Len(results) :
            DOMAIN results[i] =
                {"pid", "at", "bt", "ct", "tat", "wt"}
                    \cup (IF PR(results[i].pid) # None THEN {"pr"} ELSE {})

\* views were built of processes without a priority
C19_Witness ==
    /\ Responded /\ Len(results) >= 2
    /\ \A i \in 1..Len(results) : PR(results[i].pid) = None

\* the value can be coerced to an integer
Coercible(x) == x.kind \in {"int", "digits"}

\* C18: a priority provided as an integer value, 0 and negative integers
\* included, is the priority of the resulting record; the priority is
\* absent only when none was provided or the value cannot be coerced to an
\* integer.
C18_PriorityKept ==
    pc = "built" =>
        /\ Coercible(p_data.pr) => PR(1) = Some(p_data.pr.v)
        /\ PR(1) = None =>
              p_data.pr.kind \in {"absent", "null"} \/ ~Coercible(p_data.pr)

\* this pass of solve_priority_preemptive runs a job
RunsJob ==
    /\ algorithm = "priority_preemptive"
    /\ pc = "run" /\ pc' = "run"
    /\ last_pid' # Idle

\* the job of the previous pass is still unfinished
Unfinished(p) == p \in Pids /\ rem_bt[p] # 0

\* a process arrives at time t with a priority value strictly less than p's
HigherPriorityArrival(t, p) ==
    \E q \in Pids : AT(q) = t /\ PR(q)[1] < PR(p)[1]

\* C20: in solve_priority_preemptive the running job is taken off the CPU
\* before it completes, at time t, if and only if a process arrives at t
\* whose priority value is strictly less than the job's: the CPU leaves an
\* unfinished job only at such an arrival, it does leave it at such an
\* arrival, and no such arrival falls inside a stretch the job runs.
C20_PreemptIffHigherPriorityArrival ==
    [][RunsJob =>
        /\ (Unfinished(last_pid) /\ last_pid' # last_pid) =>
               HigherPriorityArrival(current_time, last_pid)
        /\ (Unfinished(last_pid) /\ HigherPriorityArrival(current_time, last_pid)) =>
               last_pid' # last_pid
        /\ \A q \in Pids :
               (current_time < AT(q) /\ AT(q) < current_time') =>
                   PR(q)[1] >= PR(last_pid')[1]
    ]_vars

\* ---- the reference SRTF schedule, built one time unit at a time
\* p comes before q under (remaining time, arrival time, input position)
ShorterRemaining(rem, p, q) ==
    \/ rem[p] < rem[q]
    \/ rem[p] = rem[q] /\ AT(p) < AT(q)
    \/ rem[p] = rem[q] /\ AT(p) = AT(q) /\ p <= q

\* the completion times of the schedule that, from time t on, gives every
\* time unit to the arrived unfinished process that comes first
RECURSIVE ReferenceSrtf(_, _, _)
ReferenceSrtf(t, rem, completion) ==
    LET ready == {p \in Pids : AT(p) <= t /\ rem[p] > 0}
        job == CHOOSE p \in ready : \A q \in ready : ShorterRemaining(rem, p, q)
    IN  IF \A p \in Pids : rem[p] = 0 THEN completion
        ELSE IF ready = {} THEN ReferenceSrtf(t + 1, rem, completion)
        ELSE ReferenceSrtf(t + 1, [rem EXCEPT ![job] = @ - 1],
                           IF rem[job] = 1
                           THEN [completion EXCEPT ![job] = t + 1]
                           ELSE completion)

\* C21: on valid input solve_srtf gives every process the completion time
\* of the reference SRTF schedule, in which the CPU always runs the arrived
\* unfinished process that is minimal under (remaining time, arrival time,
\* input position), so that a job is preempted only at the arrival of a
\* strictly shorter burst and otherwise runs until its remaining time is 0.
C21_SrtfMatchesReference ==
    (Returned /\ algorithm = "srtf") =>
        ct = ReferenceSrtf(0, [p \in Pids |-> BT(p)], [p \in Pids |-> 0])

\* ---- the scenario of the round robin: quantum 2, P1(0,5), P2(1,3)
RoundRobinScenario ==
    /\ algorithm = "rr" /\ quantum = 2
    /\ processes = <<Process(0, 5, None), Process(1, 3, None)>>

\* s lists its processes by arrival time, ties by input position
InArrivalOrder(s) ==
    \A i, j \in 1..Len(s) :
        i < j => AT(s[i]) < AT(s[j]) \/ (AT(s[i]) = AT(s[j]) /\ s[i] < s[j])

\* s without the process p
Without(s, p) == SelectSeq(s, LAMBDA x : x # p)

\* the slice of job p ended in this step with burst remaining
SliceEndsUnfinished(p) ==
    /\ algorithm = "rr" /\ pc = "run"
    /\ rem_bt'[p] # rem_bt[p]
    /\ rem_bt'[p] > 0

\* the ready queue after the step: what was waiting, then every process
\* admitted in the step (the arrived ones that were neither waiting nor
\* finished), in arrival order, then job p
ArrivalsAheadOf(p) ==
    LET waiting == Without(ready_queue, p)
        k == Len(waiting)
        n == Len(ready_queue')
        admitted == SubSeq(ready_queue', k + 1, n - 1)
    IN  /\ n > k
        /\ ready_queue'[n] = p
        /\ SubSeq(ready_queue', 1, k) = waiting
        /\ InArrivalOrder(admitted)
        /\ {admitted[i] : i \in 1..Len(admitted)} =
               {q \in Pids \ {p} :
                   /\ AT(q) <= current_time'
                   /\ \A i \in 1..Len(ready_queue) : ready_queue[i] # q
                   /\ \A i \in 1..Len(finished_processes) :
                          finished_processes[i] # q}

\* the timeline and the completion times of the scenario
RoundRobinScenarioOutcome ==
    (Returned /\ RoundRobinScenario) =>
        /\ gantt_timeline = <<Block(1, 0, 2), Block(2, 2, 4), Block(1, 4, 6),
                              Block(2, 6, 7), Block(1, 7, 8)>>
        /\ ct[2] = 7 /\ ct[1] = 8

\* C22: in solve_round_robin, when a job's slice ends at time t with burst
\* remaining, every not-yet-admitted process with arrival_time <= t is
\* appended to the ready queue, in arrival order with ties by input order,
\* ahead of the re-queued job; quantum 2 with P1(0,5), P2(1,3) yields the
\* timeline P1[0,2] P2[2,4] P1[4,6] P2[6,7] P1[7,8] and the completion
\* times P2 = 7, P1 = 8.
C22_ArrivalsAheadOfRequeued ==
    /\ [][\A p \in Pids : SliceEndsUnfinished(p) => ArrivalsAheadOf(p)]_vars
    /\ []RoundRobinScenarioOutcome

\* the scenario has run: P2 arrived during the first slice of P1 and was
\* served before P1 came back
C22_Witness ==
    /\ Returned /\ RoundRobinScenario
    /\ Len(gantt_timeline) = 5
    /\ gantt_timeline[2].pid = 2

\* C23: for fcfs, sjf and priority the timeline synthesized from the
\* completed list has exactly one entry per completed process, with end =
\* completion_time and start = arrival_time + waiting_time (= completion_time
\* - burst_time): each entry spans the interval in which the process ran.
C23_SynthesizedEntrySpansExecution ==
    (Returned /\ algorithm \in {"fcfs", "sjf", "priority"}) =>
        /\ Len(gantt_timeline) = Len(result)
        /\ \A i \in 1..Len(result) :
              /\ gantt_timeline[i].pid = result[i]
              /\ gantt_timeline[i].end = ct[result[i]]
              /\ gantt_timeline[i].start = AT(result[i]) + wt[result[i]]
              /\ gantt_timeline[i].start = ct[result[i]] - BT(result[i])

\* p comes no later than q under (priority value, arrival time, input
\* position)
HigherPriority(p, q) ==
    \/ PR(p)[1] < PR(q)[1]
    \/ PR(p)[1] = PR(q)[1] /\ AT(p) < AT(q)
    \/ PR(p)[1] = PR(q)[1] /\ AT(p) = AT(q) /\ p <= q

\* q has arrived and has not completed
ArrivedUnfinished(q) ==
    /\ AT(q) <= current_time
    /\ \A i \in 1..Len(finished_processes) : finished_processes[i] # q

\* C24: whenever solve_priority_preemptive selects a job to run, the job is
\* the minimum of all arrived unfinished processes under (priority value,
\* arrival time, input position), a previously preempted job included.
C24_SelectsMinimumPriority ==
    [][RunsJob =>
        \A q \in Pids : ArrivedUnfinished(q) => HigherPriority(last_pid', q)
    ]_vars

\* ---- the scenario of the non-preemptive solvers: P1(0,5), P2(1,3), P3(2,8)
ThreeProcessScenario ==
    processes = <<Process(0, 5, None), Process(1, 3, None), Process(2, 8, None)>>

\* p comes no later than q under (burst time, arrival time, input position)
ShorterBurst(p, q) ==
    \/ BT(p) < BT(q)
    \/ BT(p) = BT(q) /\ AT(p) < AT(q)
    \/ BT(p) = BT(q) /\ AT(p) = AT(q) /\ p <= q

\* the processes not among the first i - 1 completed ones
NotYetRun(i) == Pids \ {finished_processes[k] : k \in 1..(i - 1)}

\* the completion time of the process completed before the i-th, the
\* clock at the i-th scheduling point
PreviousCompletion(i) == IF i = 1 THEN 0 ELSE ct[finished_processes[i - 1]]

\* the earliest arrival among the processes of S
NextArrival(S) == CHOOSE a \in {AT(q) : q \in S} : \A q \in S : a <= AT(q)

\* the time the i-th completed process was started, had it run in one piece
StartedAt(i) == ct[finished_processes[i]] - BT(finished_processes[i])

\* the i-th completed process was started at the scheduling point, or at
\* the next arrival when nothing had arrived by then
StartedAtSchedulingPoint(i) ==
    StartedAt(i) =
        IF \E q \in NotYetRun(i) : AT(q) <= PreviousCompletion(i)
        THEN PreviousCompletion(i)
        ELSE NextArrival(NotYetRun(i))

\* the completion times of the scenario under solve_sjf
SjfScenarioOutcome ==
    (Returned /\ algorithm = "sjf" /\ ThreeProcessScenario) =>
        ct = <<5, 8, 16>>

\* C25: solve_sjf, at each scheduling point, runs to completion the arrived
\* not-yet-run process that is minimal under (burst time, arrival time,
\* input position), and advances the clock to the next arrival when none has
\* arrived; P1(0,5), P2(1,3), P3(2,8) complete at 5, 8 and 16.
C25_SjfRunsShortestArrived ==
    /\ algorithm = "sjf" =>
          /\ \A i \in 1..Len(finished_processes) :
                /\ StartedAtSchedulingPoint(i)
                /\ \A q \in NotYetRun(i) :
                      AT(q) <= StartedAt(i) => ShorterBurst(finished_processes[i], q)
          /\ Returned => result = finished_processes /\ Len(result) = N
    /\ SjfScenarioOutcome

\* solve_sjf has idled until the first arrival and has then run a shorter
\* job ahead of one that arrived before it
C25_Witness ==
    /\ Returned /\ algorithm = "sjf" /\ N = 3
    /\ \A p \in Pids : AT(p) > 0
    /\ \E i, j \in 1..N :
          /\ i < j
          /\ AT(result[i]) > AT(result[j])
          /\ BT(result[i]) < BT(result[j])

\* the scenario's completion, turnaround and waiting times under solve_fcfs
FcfsScenarioOutcome ==
    (Returned /\ algorithm = "fcfs" /\ ThreeProcessScenario) =>
        /\ ct = <<5, 8, 16>>
        /\ tat = <<5, 7, 14>>
        /\ wt = <<0, 4, 6>>

\* C26: solve_fcfs runs the processes in order of arrival time, ties in
\* input order, each starting at max(previous completion, its arrival time)
\* and finishing burst_time later; [P1(0,5), P2(1,3), P3(2,8)] gives P1 ct=5
\* tat=5 wt=0, P2 ct=8 tat=7 wt=4, P3 ct=16 tat=14 wt=6.
C26_FcfsRunsInArrivalOrder ==
    /\ (Returned /\ algorithm = "fcfs") =>
          /\ Len(result) = N
          /\ InArrivalOrder(result)
          /\ \A i \in 1..Len(result) :
                LET previous == IF i = 1 THEN 0 ELSE ct[result[i - 1]]
                    start == IF previous > AT(result[i]) THEN previous
                                                         ELSE AT(result[i])
                IN  ct[result[i]] = start + BT(result[i])
    /\ FcfsScenarioOutcome

\* solve_fcfs has run three processes handed over out of arrival order, one
\* after an idle gap and one that had to wait
C26_Witness ==
    /\ Returned /\ algorithm = "fcfs" /\ N = 3
    /\ AT(1) > AT(3)
    /\ \E i \in 2..N : ct[result[i - 1]] < AT(result[i])
    /\ \E p \in Pids : wt[p] > 0

Completed(p) ==
    IF algorithm = "fcfs"
    THEN \E i \in 1..(process_index - 1) :
             i <= Len(temp_processes) /\ temp_processes[i] = p
    ELSE \E i \in 1..Len(finished_processes) : finished_processes[i] = p

DerivedFields(p) == <<ct[p], tat[p], wt[p]>>

\* the step runs p: it adds to the timeline an entry of p or extends one
RunsProcess(p) ==
    /\ gantt_timeline' # gantt_timeline
    /\ gantt_timeline' # <<>>
    /\ gantt_timeline'[Len(gantt_timeline')].pid = p

\* the derived fields of p change only in the step that completes p, which
\* writes the completion time; a completed p stays completed, with the same
\* fields and remaining time, out of the ready queue and off the CPU
WrittenOnceAtCompletion(p) ==
    /\ DerivedFields(p)' # DerivedFields(p) => ~Completed(p) /\ Completed(p)'
    /\ (~Completed(p) /\ Completed(p)') =>
           ct'[p] # ct[p] /\ ct'[p] = current_time'
    /\ Completed(p) =>
           /\ Completed(p)'
           /\ DerivedFields(p)' = DerivedFields(p)
           /\ rem_bt'[p] = rem_bt[p]
           /\ \A i \in 1..Len(ready_queue') : ready_queue'[i] # p
           /\ pc = "run" /\ algorithm \in TimelineAlgorithms => ~RunsProcess(p)

\* C28: in every solver run each process's derived fields are written
\* exactly once, at the step in which the process completes, and completed
\* is terminal: a process in the completed list is never put back in the
\* ready queue, never run again and never modified.
C28_WrittenOnceCompletedTerminal ==
    [][\A p \in Pids : WrittenOnceAtCompletion(p)]_vars

\* solve_round_robin has completed one process and gone on with another,
\* which had been put back in the ready queue before
C28_Witness ==
    /\ pc = "run" /\ algorithm = "rr" /\ N = 2
    /\ Len(finished_processes) = 1
    /\ gantt_timeline[Len(gantt_timeline)].pid # finished_processes[1]
    /\ \E i \in 1..(Len(gantt_timeline) - 1) :
          gantt_timeline[i].pid = gantt_timeline[Len(gantt_timeline)].pid

\* every job's remaining burst time is within 0..burst_time
RemainingWithinBurst ==
    (algorithm \in TimelineAlgorithms /\ pc \in {"run", "done"}) =>
        \A p \in Pids : 0 <= rem_bt[p] /\ rem_bt[p] <= BT(p)

\* a step that runs a job runs it for a duration d with 1 <= d <= its
\* remaining burst time, and no step moves the clock backwards
DispatchWithinRemaining ==
    (algorithm \in TimelineAlgorithms /\ pc = "run") =>
        /\ current_time' >= current_time
        /\ \A p \in Pids :
              rem_bt'[p] # rem_bt[p] =>
                  /\ 1 <= rem_bt[p] - rem_bt'[p]
                  /\ rem_bt[p] - rem_bt'[p] <= rem_bt[p]
                  /\ current_time' = current_time + (rem_bt[p] - rem_bt'[p])

\* C29: in solve_round_robin, solve_srtf and solve_priority_preemptive on
\* valid input every job's remaining burst time stays within 0..burst_time
\* and every dispatch runs the job for a duration d with 1 <= d <= its
\* remaining burst time, so that the clock never moves backwards.
C29_DispatchWithinRemaining ==
    /\ []RemainingWithinBurst
    /\ [][DispatchWithinRemaining]_vars

\* C30: in the timeline returned by solve_round_robin, solve_srtf and
\* solve_priority_preemptive on valid input no process executes before it
\* arrives: every non-Idle entry starts at or after the arrival_time of the
\* process it names.
C30_NoExecutionBeforeArrival ==
    (Returned /\ algorithm \in TimelineAlgorithms) =>
        \A i \in 1..Len(gantt_timeline) :
            gantt_timeline[i].pid # Idle =>
                gantt_timeline[i].start >= AT(gantt_timeline[i].pid)

\* ---- the dispatches of a round-robin run, read off its timeline: an
\* unfinished job runs a whole quantum, and consecutive slices of one
\* process are merged, so an entry holds one dispatch per quantum begun

\* q is in the ready queue when a job is put back at time t: it has arrived
\* and has not completed
ReadyAt(q, t) == AT(q) <= t /\ ct[q] > t

\* the times inside entry i at which its process was put back and at once
\* dispatched again
RedispatchTimes(i) ==
    {t \in (gantt_timeline[i].start + 1)..(gantt_timeline[i].end - 1) :
        (t - gantt_timeline[i].start) % quantum = 0}

\* entries i and j hold consecutive dispatches of one process: the last of
\* entry i and the first of entry j
NextEntryOfProcess(i, j) ==
    /\ i < j
    /\ gantt_timeline[j].pid = gantt_timeline[i].pid
    /\ \A m \in (i + 1)..(j - 1) : gantt_timeline[m].pid # gantt_timeline[i].pid

\* the entries of q between entries i and j
EntriesBetween(q, i, j) ==
    {m \in (i + 1)..(j - 1) : gantt_timeline[m].pid = q}

\* q is dispatched exactly once between entries i and j: it has one entry
\* there, of one slice
DispatchedOnceBetween(q, i, j) ==
    /\ Cardinality(EntriesBetween(q, i, j)) = 1
    /\ \A m \in EntriesBetween(q, i, j) :
          gantt_timeline[m].end - gantt_timeline[m].start <= quantum

\* C31: in solve_round_robin on valid input, between two consecutive
\* dispatches of the same unfinished process P every other process that was
\* in the ready queue when P was re-queued is dispatched exactly once: P is
\* dispatched again at once only when no other process is ready, and
\* otherwise after one slice of each process that was ready.
C31_NoProcessOvertakenTwice ==
    (Returned /\ algorithm = "rr") =>
        \A i \in 1..Len(gantt_timeline) :
            gantt_timeline[i].pid # Idle =>
                /\ \A t \in RedispatchTimes(i) :
                      \A q \in Pids \ {gantt_timeline[i].pid} : ~ReadyAt(q, t)
                /\ \A j \in (i + 1)..Len(gantt_timeline) :
                      NextEntryOfProcess(i, j) =>
                          \A q \in Pids \ {gantt_timeline[i].pid} :
                              ReadyAt(q, gantt_timeline[i].end) =>
                                  DispatchedOnceBetween(q, i, j)

\* a round-robin run in which a re-queued process waited for two others,
\* one of which was re-queued behind it
C31_Witness ==
    /\ Returned /\ algorithm = "rr" /\ N = 3
    /\ \E i, j \in 1..Len(gantt_timeline) :
          /\ gantt_timeline[i].pid # Idle
          /\ NextEntryOfProcess(i, j)
          /\ \A q \in Pids \ {gantt_timeline[i].pid} :
                ReadyAt(q, gantt_timeline[i].end)
          /\ \E q \in Pids \ {gantt_timeline[i].pid} :
                ReadyAt(q, gantt_timeline[j].start)

\* ---- work conservation of the solvers that return a timeline

\* p is in the finished list
Finished(p) == \E i \in 1..Len(finished_processes) : finished_processes[i] = p

\* this pass of the loop takes the idle branch: the timeline gets an Idle
\* interval that ends at the new clock
IdleAppended ==
    /\ pc = "run" /\ algorithm \in TimelineAlgorithms
    /\ gantt_timeline' # gantt_timeline
    /\ gantt_timeline'[Len(gantt_timeline')].pid = Idle
    /\ gantt_timeline'[Len(gantt_timeline')].end = current_time'

\* nothing is left to run at the current clock: the ready queue is empty,
\* every process that has arrived is finished, and no unfinished process
\* has run
NothingToRun ==
    /\ ready_queue = <<>>
    /\ \A p \in Pids : AT(p) <= current_time => Finished(p)
    /\ \A p \in Pids : ~Finished(p) => rem_bt[p] = BT(p)

\* the clock moves forward to the earliest arrival of an unfinished process
JumpsToNextArrival ==
    /\ current_time < current_time'
    /\ \E p \in Pids : ~Finished(p) /\ AT(p) = current_time'
    /\ \A p \in Pids : ~Finished(p) => current_time' <= AT(p)

\* C32: solve_round_robin, solve_srtf and solve_priority_preemptive are
\* work-conserving: an Idle interval is appended to the timeline, and the
\* clock jumped to the next arrival, only in a state where every process
\* with arrival_time <= the current clock is already in the finished list,
\* the ready queue is empty and no job is partially run.
C32_IdleOnlyWhenNothingToRun ==
    [][IdleAppended => (NothingToRun /\ JumpsToNextArrival)]_vars

\* the solver has idled after completing a process, while another had not
\* yet arrived
C32_Witness ==
    /\ pc = "run" /\ algorithm \in TimelineAlgorithms
    /\ Len(gantt_timeline) >= 2
    /\ gantt_timeline[Len(gantt_timeline)].pid = Idle
    /\ gantt_timeline[Len(gantt_timeline)].end = current_time
    /\ finished_processes # <<>>
    /\ Len(finished_processes) < N

====
